---- MODULE Spec2Model ----
(***************************************************************************)
(* Model of the user CRUD service: HTTP handlers (UserHandler), the use    *)
(* case orchestrator (UserServiceImpl), the relational adapter             *)
(* (PostgresRepository, with its transaction port Execute) and the         *)
(* relational engine behind it (one table, a primary key on id and unique  *)
(* indexes idx_username and idx_email, as declared by UserEntity).         *)
(*                                                                         *)
(* Go errors are records [type, val, wrapped]: type and val identify the   *)
(* error value (a sentinel, or a struct error with its Value), wrapped     *)
(* tells that it sits inside fmt.Errorf("internal service error: %w", e),  *)
(* through which errors.Is and errors.As still see it.                     *)
(***************************************************************************)
EXTENDS Integers, Sequences, FiniteSets, TLC

\* ------------------------------------------------------------------ bounds
\* Largest reading of the clock (time.Now().UnixNano(), scaled) a Create can get.
MaxNano == 1
\* Largest number of repository calls a generic unit of work makes.
MaxSteps == 2
\* Largest number of operations started in one behaviour of SpecRace.
MaxCalls == 2

\* Nanoseconds per millisecond (scaled down from 1000000), ulid.Timestamp(t).
NanosPerMilli == 2
\* Size of the entropy space of an identifier (scaled down from 2^80).
EntropySpace == 5

Clients == {"c1", "c2"}
Blank == ""
Names == {"n1"}
Usernames == {"u1", "u2"}
Emails == {"e1", "e2"}
\* Raw driver detail strings of an unclassified storage failure.
Details == {"d1", "d2"}

\* ------------------------------------------------------------- identifiers
\* math/rand seeded with the clock reading: a deterministic function of the
\* seed that is not monotone in it.
EntropyOf(seed) == (3 + 3 * seed) % EntropySpace

\* The identifier Create builds from one clock reading t: the millisecond
\* timestamp followed by entropy drawn from a generator seeded with t.
NewUlid(t) == <<t \div NanosPerMilli, EntropyOf(t)>>

NoId == <<>>
\* The order of two ids as strings: by timestamp, then by entropy.
LexLeq(a, b) == a[1] < b[1] \/ (a[1] = b[1] /\ a[2] <= b[2])

AllIds == {NewUlid(t) : t \in 0..MaxNano}

\* ------------------------------------------------------------------ users
\* domain.User and entity.UserEntity: four string fields.
User(id, name, username, email) ==
    [id |-> id, name |-> name, username |-> username, email |-> email]

NoUser == User(NoId, Blank, Blank, Blank)

\* The conversion as it would be with username and email exchanged.
ToEntityExchanged(user) == User(user.id, user.name, user.email, user.username)

\* entity.ToEntity and entity.FromEntity copy the four fields one by one.
ToEntity(user) == User(user.id, user.name, user.username, user.email)

\* The conversion back as it would be if it left the email out.
FromEntityWithoutEmail(entity) == User(entity.id, entity.name, entity.username, Blank)

FromEntity(entity) == User(entity.id, entity.name, entity.username, entity.email)

\* ----------------------------------------------------------------- errors
Err(type, val) == [type |-> type, val |-> val, wrapped |-> FALSE]

Nil == Err("nil", <<>>)
ErrUserNotFound == Err("sentinel", <<"user not found">>)
ErrUsernameInUse == Err("sentinel", <<"username already in use">>)
ErrEmailInUse == Err("sentinel", <<"email already in use">>)
ErrIdInUse == Err("sentinel", <<"id already in use">>)
ErrValueNotNullable(value) == Err("ErrValueNotNullable", <<value>>)
ErrInternalServer(value) == Err("ErrInternalServer", value)
ErrTransactionFailed(value) == Err("ErrTransactionFailed", value)
\* fmt.Errorf(text) without %w: a fresh error that wraps nothing.
TextError(text) == Err("text", text)
\* An error of the unit of work's own, unknown to the domain.
UnitError == Err("unit", <<"unit of work failed">>)

\* errors.Is(err, target) for a comparable target.
ErrorsIs(err, target) == err.type = target.type /\ err.val = target.val

\* errors.As(err, &domain.ErrValueNotNullable{}).
AsNotNullable(err) == err.type = "ErrValueNotNullable"

\* err.Error(): the message as a sequence of its parts.
BaseMessage(err) ==
    CASE err.type = "ErrValueNotNullable" -> err.val \o <<" is not nullable">>
      [] err.type = "ErrInternalServer" -> <<"internal server error: ">> \o err.val
      [] err.type = "ErrTransactionFailed" -> <<"error transaction failed: ">> \o err.val
      [] OTHER -> err.val

ErrorMessage(err) ==
    IF err.wrapped THEN <<"internal service error: ">> \o BaseMessage(err)
    ELSE BaseMessage(err)

\* ---------------------------------------------------------- driver errors
\* What a statement hands back in gorm's .Error: nothing, a *pq.Error, a
\* *pgconn.PgError, gorm.ErrRecordNotFound, or any other error.
DriverError(shape, code, constraint, tbl, detail) ==
    [shape |-> shape, code |-> code, constraint |-> constraint,
     table |-> tbl, column |-> "", msg |-> detail]

\* The same error naming the offending column (pq.Error.Column,
\* pgconn.PgError.ColumnName).
WithColumn(err, column) == [err EXCEPT !.column = column]

DriverOk == DriverError("none", "", "", "", <<>>)
GormRecordNotFound == DriverError("gorm.ErrRecordNotFound", "", "", "", <<"record not found">>)
OtherDriverError(detail) == DriverError("other", "", "", "", <<detail>>)

UniqueViolation == "23505"
NotNullViolation == "23502"

NoPgError == [code |-> "", constraint |-> "", found |-> FALSE]

extractPgError(err) ==
    IF err.shape = "none" THEN NoPgError
    ELSE IF err.shape = "pq"
    THEN [code |-> err.code,
          constraint |-> IF err.constraint = "" THEN err.table ELSE err.constraint,
          found |-> TRUE]
    ELSE IF err.shape = "pgconn"
    THEN [code |-> err.code, constraint |-> err.constraint, found |-> TRUE]
    ELSE NoPgError

\* The classification Create and Update share, applied to a non-nil driver
\* error: unique violation by constraint name, not-null violation by column,
\* anything else an internal error carrying the raw message.
ClassifyPgError(result) ==
    LET err == extractPgError(result) IN
    IF err.found /\ err.code = UniqueViolation /\ err.constraint = "users_pkey"
    THEN ErrIdInUse
    ELSE IF err.found /\ err.code = UniqueViolation /\ err.constraint = "idx_username"
    THEN ErrUsernameInUse
    ELSE IF err.found /\ err.code = UniqueViolation /\ err.constraint = "idx_email"
    THEN ErrEmailInUse
    ELSE IF err.found /\ err.code = NotNullViolation
    THEN ErrValueNotNullable(IF err.constraint \in {"id", "username", "email"}
                             THEN err.constraint ELSE "a column")
    ELSE ErrInternalServer(result.msg)

\* PostgresRepository.Create, after the INSERT returned `result`.
RepoCreateError(result) ==
    IF result.shape # "none" THEN ClassifyPgError(result) ELSE Nil

\* PostgresRepository.Update, after the UPDATE returned `result` and
\* affected `rows` rows.
RepoUpdateError(result, rows) ==
    IF result.shape # "none"
    THEN IF result.shape = "gorm.ErrRecordNotFound" THEN ErrUserNotFound
         ELSE ClassifyPgError(result)
    ELSE IF rows = 0 THEN ErrUserNotFound
    ELSE Nil

\* PostgresRepository.Delete, after the DELETE returned `result` and
\* affected `rows` rows.
RepoDeleteError(result, rows) ==
    IF result.shape # "none" THEN ErrInternalServer(result.msg)
    ELSE IF rows = 0 THEN ErrUserNotFound
    ELSE Nil

\* FindById as it would be if it handed an unclassified driver error on.
RepoFindByIdErrorRaw(result) ==
    IF result.shape = "none" THEN Nil
    ELSE IF result.shape = "gorm.ErrRecordNotFound" THEN ErrUserNotFound
    ELSE Err("driver", result.msg)

\* PostgresRepository.FindById, after the SELECT returned `result`.
RepoFindByIdError(result) ==
    IF result.shape = "none" THEN Nil
    ELSE IF result.shape = "gorm.ErrRecordNotFound" THEN ErrUserNotFound
    ELSE ErrInternalServer(result.msg)

\* PostgresRepository.FindAll, after the SELECT returned `result`.
RepoFindAllError(result) ==
    IF result.shape = "none" THEN Nil ELSE ErrInternalServer(result.msg)

\* gorm's db.Transaction(fc): the error of Begin if it fails (fc does not
\* run), else the error fc returned (the transaction is rolled back, and a
\* failure of that rollback is dropped), else the error of Commit.
NoTxError == [failed |-> FALSE, msg |-> <<>>]
TransactionError(begin, unitErr, commit) ==
    IF begin.shape # "none" THEN [failed |-> TRUE, msg |-> begin.msg]
    ELSE IF unitErr # Nil THEN [failed |-> TRUE, msg |-> ErrorMessage(unitErr)]
    ELSE IF commit.shape # "none" THEN [failed |-> TRUE, msg |-> commit.msg]
    ELSE NoTxError

\* Execute as it would be if a failed Commit were not reported.
ExecuteErrorCommitSwallowed(txErr, capturedDomainError) ==
    IF txErr.failed /\ capturedDomainError # Nil THEN capturedDomainError ELSE Nil

\* PostgresRepository.Execute, after db.Transaction returned txErr and the
\* unit of work (if it ran and failed) left capturedDomainError.
ExecuteError(txErr, capturedDomainError) ==
    IF txErr.failed
    THEN IF capturedDomainError # Nil THEN capturedDomainError
         ELSE ErrTransactionFailed(txErr.msg)
    ELSE Nil

\* ------------------------------------------------------------ orchestrator
mapRepositoryError(err) ==
    IF ErrorsIs(err, ErrUserNotFound) THEN TextError(<<"user not found">>)
    ELSE IF ErrorsIs(err, ErrUsernameInUse) THEN TextError(<<"username already in use">>)
    ELSE IF ErrorsIs(err, ErrEmailInUse) THEN TextError(<<"email already in use">>)
    ELSE IF AsNotNullable(err) THEN TextError(ErrorMessage(err))
    ELSE [err EXCEPT !.wrapped = TRUE]

\* The error a UserServiceImpl method returns for the error its repository
\* or transaction port gave it.
ServiceError(err) == IF err # Nil THEN mapRepositoryError(err) ELSE Nil

\* ---------------------------------------------------------------- handlers
StatusOK == 200
StatusCreated == 201
StatusNoContent == 204
StatusBadRequest == 400
StatusNotFound == 404
StatusConflict == 409
StatusInternalServerError == 500

\* validator.Struct(UserCreateRequest): every field is required.
ValidCreateRequest(request) ==
    request.name # Blank /\ request.username # Blank /\ request.email # Blank

\* UserHandler.CreateUser, after the service returned err.
CreateUserStatus(err) ==
    IF err # Nil
    THEN IF ErrorsIs(err, ErrIdInUse) \/ ErrorsIs(err, ErrEmailInUse)
            \/ ErrorsIs(err, ErrUsernameInUse)
         THEN StatusConflict
         ELSE IF ErrorsIs(err, ErrValueNotNullable(Blank)) THEN StatusBadRequest
         ELSE StatusInternalServerError
    ELSE StatusCreated

\* UserHandler.FindAll, after the service returned err.
FindAllStatus(err) == IF err # Nil THEN StatusInternalServerError ELSE StatusOK

\* UserHandler.FindById, after the service returned err.
FindByIdStatus(err) ==
    IF err # Nil
    THEN IF ErrorsIs(err, ErrUserNotFound) THEN StatusNotFound
         ELSE StatusInternalServerError
    ELSE StatusOK

\* UserHandler.Update, after the service returned err.
UpdateStatus(err) ==
    IF err # Nil
    THEN IF ErrorsIs(err, ErrUserNotFound) THEN StatusNotFound
         ELSE IF ErrorsIs(err, ErrEmailInUse) \/ ErrorsIs(err, ErrUsernameInUse)
         THEN StatusConflict
         ELSE StatusInternalServerError
    ELSE StatusOK

\* UserHandler.Delete, after the service returned err.
DeleteStatus(err) ==
    IF err # Nil
    THEN IF ErrorsIs(err, ErrUserNotFound) THEN StatusNotFound
         ELSE StatusInternalServerError
    ELSE StatusNoContent

\* ------------------------------------------------------------------ state
VARIABLES
    table,   \* the committed rows of the users table
    calls,   \* operations started so far (counted under SpecRace only)
    pc,      \* per client: "idle", "tx" (inside Execute), "done"
    call,    \* per client: the operation in progress or just finished
    ins,     \* per client: row versions its open transaction wrote
    del,     \* per client: committed row versions its open transaction replaced or removed
    uerr,    \* per client: the error a repository call gave the unit of work
    steps,   \* per client: repository calls the unit of work has made
    waited,  \* per client: constraints on which its statement waited for another transaction
    out,     \* per client: what the finished operation returned
    issued,  \* clock readings and ids of the Create calls of SpecIds, in call order
    drv      \* the driver result last handed to a repository method under SpecAdapter

vars == <<table, calls, pc, call, ins, del, uerr, steps, waited, out, issued, drv>>

NoCall == [op |-> "none", via |-> "none", user |-> NoUser]
NoOut == [exec |-> Nil, err |-> Nil, status |-> 0, user |-> NoUser,
          users |-> {}, store |-> "none", wrote |-> FALSE]

Init ==
    /\ table = {}
    /\ calls = 0
    /\ pc = [c \in Clients |-> "idle"]
    /\ call = [c \in Clients |-> NoCall]
    /\ ins = [c \in Clients |-> {}]
    /\ del = [c \in Clients |-> {}]
    /\ uerr = [c \in Clients |-> Nil]
    /\ steps = [c \in Clients |-> 0]
    /\ waited = [c \in Clients |-> {}]
    /\ out = [c \in Clients |-> NoOut]
    /\ issued = <<>>
    /\ drv = DriverOk

\* ---------------------------------------------------------------- requests
\* UserCreateRequest values; a blank field is one the caller left out.
CreateRequests ==
    {User(NoId, n, u, e) : n \in Names \cup {Blank}, u \in Usernames, e \in Emails}

\* Update requests: an id and any subset of the other fields.
UpdateRequests ==
    {User(i, n, u, e) : i \in AllIds, n \in Names \cup {Blank},
                        u \in Usernames \cup {Blank}, e \in Emails \cup {Blank}}

\* Updates that change one unique field and nothing else.
KeyUpdates ==
    {u \in UpdateRequests :
        u.name = Blank /\ (u.username = Blank) # (u.email = Blank)}

\* The storage faults a round trip to the store can end in, DriverOk being none.
Healthy == {DriverOk}
Faults == {DriverOk} \cup {OtherDriverError(d) : d \in Details}

\* ErrorHandlerWrapper: the JSON body written for a handler's HTTPError, the
\* handler having wrapped errors.New(err.Error()) with its status.
ErrorResponse(err, status) ==
    [status |-> IF status # 0 THEN status ELSE StatusInternalServerError,
     message |-> ErrorMessage(err)]

\* ------------------------------------------------------------------ engine
\* The name under which the engine reports a primary-key violation: the one
\* the adapter looks for, or the one derived from the migrated table
\* (AutoMigrate of UserEntity names the table user_entities).
PkeyNames == {"users_pkey", "user_entities_pkey"}
TableName == "user_entities"
DriverShapes == {"pq", "pgconn"}

\* UserEntity as it would be without the unique index on email.
CollideWithoutEmailIndex(r, s) ==
    {k \in {"pkey"} : r.id = s.id}
    \cup {k \in {"idx_username"} : r.username = s.username}

\* The unique constraints of UserEntity two rows collide on.
Collide(r, s) ==
    {k \in {"pkey"} : r.id = s.id}
    \cup {k \in {"idx_username"} : r.username = s.username}
    \cup {k \in {"idx_email"} : r.email = s.email}

Violations(new, rows) == UNION {Collide(new, s) : s \in rows}

\* The error the driver reports for a violation of unique constraint k.
UniqueViolationErrors(k) ==
    {DriverError(shape, UniqueViolation, name, TableName,
                 <<"duplicate key value violates unique constraint", name>>) :
        shape \in DriverShapes,
        name \in IF k = "pkey" THEN PkeyNames ELSE {k}}

\* The rows client c's transaction sees: committed rows and its own writes.
Visible(c) == (table \ del[c]) \cup ins[c]
OthersIns(c) == UNION {ins[d] : d \in {x \in Clients \ {c} : pc[x] = "tx"}}
OthersDel(c) == UNION {del[d] : d \in {x \in Clients \ {c} : pc[x] = "tx"}}
\* Visible rows no other open transaction has touched.
Settled(c) == Visible(c) \ OthersDel(c)
\* Row versions whose fate another open transaction still decides.
InFlux(c) == OthersIns(c) \cup OthersDel(c)

\* Updates as it would be if it wrote the zero-valued fields too.
PatchOverwriting(row, entity) ==
    User(row.id, entity.name, entity.username, entity.email)

\* db.Model(&UserEntity{ID: id}).Updates(entity): only the non-zero fields
\* of the entity are written.
Patch(row, entity) ==
    User(row.id,
         IF entity.name # Blank THEN entity.name ELSE row.name,
         IF entity.username # Blank THEN entity.username ELSE row.username,
         IF entity.email # Blank THEN entity.email ELSE row.email)

\* The rows UPDATE or DELETE ... WHERE id = ? acts on.
Targets(c, stmt) ==
    IF stmt.kind = "Create" THEN {}
    ELSE {r \in Visible(c) : r.id = stmt.user.id}

\* The row versions the statement writes.
Written(c, stmt) ==
    CASE stmt.kind = "Create" -> {ToEntity(stmt.user)}
      [] stmt.kind = "Update" -> {Patch(r, ToEntity(stmt.user)) : r \in Targets(c, stmt)}
      [] OTHER -> {}

\* Unique constraints the statement violates against settled rows.
StableViolations(c, stmt) ==
    UNION {Violations(n, Settled(c) \ Targets(c, stmt)) : n \in Written(c, stmt)}

\* Unique constraints on which it collides with another open transaction.
FluxViolations(c, stmt) ==
    UNION {Violations(n, InFlux(c) \ Targets(c, stmt)) : n \in Written(c, stmt)}

\* The statement must wait for another transaction to end.
Blocked(c, stmt) ==
    \/ Targets(c, stmt) \cap OthersDel(c) # {}
    \/ StableViolations(c, stmt) = {} /\ FluxViolations(c, stmt) # {}

\* What the driver can hand back for the statement.
DriverResults(c, stmt, faults) ==
    (faults \ {DriverOk})
    \cup (IF StableViolations(c, stmt) = {} THEN {DriverOk}
          ELSE UNION {UniqueViolationErrors(k) : k \in StableViolations(c, stmt)})

RowsAffected(c, stmt, result) ==
    IF result = DriverOk THEN Cardinality(Targets(c, stmt)) ELSE 0

\* The error the repository method returns for the driver's result.
RepoError(c, stmt, result) ==
    CASE stmt.kind = "Create" -> RepoCreateError(result)
      [] stmt.kind = "Update" -> RepoUpdateError(result, RowsAffected(c, stmt, result))
      [] OTHER -> RepoDeleteError(result, RowsAffected(c, stmt, result))

\* Driver results a repository method may be handed, whatever the statement:
\* PostgreSQL errors of either driver with any code, constraint and column,
\* and errors that are not PostgreSQL errors.
SqlStates == {UniqueViolation, NotNullViolation, "40001"}
ConstraintNames == {"", "idx_username", "idx_email", "username"} \cup PkeyNames
ColumnNames == {"", "name", "username"}
DriverOutcomes ==
    {DriverOk, GormRecordNotFound}
    \cup {OtherDriverError(d) : d \in Details}
    \cup {WithColumn(DriverError(shape, code, name, TableName, <<"d1">>), column) :
            shape \in DriverShapes, code \in SqlStates, name \in ConstraintNames,
            column \in ColumnNames}

\* ------------------------------------------------------------- operations
\* The status the handler in front of operation op answers with.
StatusOf(op, err) ==
    CASE op = "Create" -> CreateUserStatus(err)
      [] op = "Update" -> UpdateStatus(err)
      [] op = "Delete" -> DeleteStatus(err)
      [] op = "FindById" -> FindByIdStatus(err)
      [] op = "FindAll" -> FindAllStatus(err)
      [] OTHER -> 0

\* What an operation hands back: the adapter's error, the error the
\* orchestrator makes of it, the handler's status and the returned records.
Outcome(op, exec, user, users, store, wrote) ==
    [exec |-> exec, err |-> ServiceError(exec),
     status |-> StatusOf(op, ServiceError(exec)),
     user |-> IF exec = Nil THEN user ELSE NoUser,
     users |-> IF exec = Nil THEN users ELSE {},
     store |-> store, wrote |-> wrote]

\* The transaction as it would end if a failed unit of work were committed.
AfterTransactionNoRollback(c, unitErr, finish) ==
    IF finish = DriverOk THEN (table \ del[c]) \cup ins[c] ELSE table

\* The table after db.Transaction ends client c's transaction: its writes
\* become visible only if the unit of work returned nil and Commit succeeded.
AfterTransaction(c, unitErr, finish) ==
    IF unitErr = Nil /\ finish = DriverOk
    THEN (table \ del[c]) \cup ins[c]
    ELSE table

Counted(budgeted) ==
    IF budgeted THEN calls < MaxCalls /\ calls' = calls + 1
    ELSE UNCHANGED calls

\* A mutating use case enters Execute: db.Transaction begins a transaction,
\* or fails to and Execute returns without running the unit of work.
Enter(c, op, via, user, begin, budgeted) ==
    /\ pc[c] = "idle"
    /\ Counted(budgeted)
    /\ call' = [call EXCEPT ![c] = [op |-> op, via |-> via, user |-> user]]
    /\ IF begin = DriverOk
       THEN /\ pc' = [pc EXCEPT ![c] = "tx"]
            /\ UNCHANGED out
       ELSE /\ pc' = [pc EXCEPT ![c] = "done"]
            /\ out' = [out EXCEPT ![c] =
                 Outcome(op, ExecuteError(TransactionError(begin, Nil, DriverOk), Nil),
                         NoUser, {}, "beginFailed", FALSE)]
    /\ UNCHANGED <<table, ins, del, uerr, steps, waited, drv>>

\* UserHandler.CreateUser refuses a request with a blank field.
RejectCreate(c, request, budgeted) ==
    /\ pc[c] = "idle"
    /\ ~ValidCreateRequest(request)
    /\ Counted(budgeted)
    /\ call' = [call EXCEPT ![c] = [op |-> "Create", via |-> "http", user |-> request]]
    /\ pc' = [pc EXCEPT ![c] = "done"]
    /\ out' = [out EXCEPT ![c] =
         [NoOut EXCEPT !.err = TextError(<<"is required and cannot be blank.">>),
                       !.status = StatusBadRequest]]
    /\ UNCHANGED <<table, ins, del, uerr, steps, waited, issued, drv>>

\* UserServiceImpl.Create up to its repository call: the transaction begins
\* and the unit of work reads the clock (an input: any reading t) and builds
\* the user.
CreateAt(c, request, via, begin, budgeted, t) ==
    /\ via = "http" => ValidCreateRequest(request)
    /\ begin # DriverOk => t = 0
    /\ Enter(c, "Create", via,
             IF begin = DriverOk
             THEN User(NewUlid(t), request.name, request.username, request.email)
             ELSE request,
             begin, budgeted)

CallCreate(c, request, via, begin, faults, budgeted) ==
    /\ begin \in faults
    /\ \E t \in 0..MaxNano : CreateAt(c, request, via, begin, budgeted, t)
    /\ UNCHANGED issued

\* The same call with its clock reading and id noted in call order; the
\* process's clock never runs backwards from one call to the next.
IssueCreate(c, request) ==
    \E t \in 0..MaxNano :
        /\ issued # <<>> => t >= issued[Len(issued)].at
        /\ CreateAt(c, request, "svc", DriverOk, TRUE, t)
        /\ issued' = Append(issued, [at |-> t, id |-> NewUlid(t)])

\* UserServiceImpl.Update up to its repository call.
CallUpdate(c, user, begin, faults, budgeted) ==
    /\ begin \in faults
    /\ Enter(c, "Update", "http", user, begin, budgeted)
    /\ UNCHANGED issued

\* UserServiceImpl.Delete up to its repository call.
CallDelete(c, id, begin, faults, budgeted) ==
    /\ begin \in faults
    /\ Enter(c, "Delete", "http", User(id, Blank, Blank, Blank), begin, budgeted)
    /\ UNCHANGED issued

\* Execute called with a unit of work of the caller's own.
CallExecute(c, begin, faults) ==
    /\ begin \in faults
    /\ Enter(c, "Execute", "port", NoUser, begin, FALSE)
    /\ UNCHANGED issued

\* One repository call of the unit of work, run on the transaction.
Statement(c, stmt, faults) ==
    /\ pc[c] = "tx"
    /\ uerr[c] = Nil
    /\ ~Blocked(c, stmt)
    /\ \E result \in DriverResults(c, stmt, faults) :
         /\ uerr' = [uerr EXCEPT ![c] = RepoError(c, stmt, result)]
         /\ IF result = DriverOk
            THEN /\ ins' = [ins EXCEPT ![c] = (@ \ Targets(c, stmt)) \cup Written(c, stmt)]
                 /\ del' = [del EXCEPT ![c] = @ \cup (Targets(c, stmt) \cap table)]
            ELSE UNCHANGED <<ins, del>>
    /\ steps' = [steps EXCEPT ![c] = @ + 1]
    /\ UNCHANGED <<table, calls, pc, call, waited, out, issued, drv>>

\* The single repository call of the orchestrator's unit of work.
OwnStatement(c) == [kind |-> call[c].op, user |-> call[c].user]

Step(c, faults) ==
    /\ call[c].op \in {"Create", "Update", "Delete"}
    /\ steps[c] = 0
    /\ Statement(c, OwnStatement(c), faults)

\* The statement cannot proceed until another transaction ends.
Wait(c) ==
    /\ pc[c] = "tx"
    /\ call[c].op \in {"Create", "Update", "Delete"}
    /\ steps[c] = 0
    /\ waited[c] = {}
    /\ Blocked(c, OwnStatement(c))
    /\ waited' = [waited EXCEPT ![c] =
         LET hit == UNION {Violations(n, OthersIns(c)) : n \in Written(c, OwnStatement(c))}
         IN IF hit = {} THEN {"row"} ELSE hit]
    /\ UNCHANGED <<table, calls, pc, call, ins, del, uerr, steps, out, issued, drv>>

\* The statements a caller's own unit of work may run.
UnitStatements ==
    {[kind |-> "Create", user |-> User(i, r.name, r.username, r.email)] :
        i \in AllIds, r \in CreateRequests}
    \cup {[kind |-> "Update", user |-> u] : u \in KeyUpdates}
    \cup {[kind |-> "Delete", user |-> User(i, Blank, Blank, Blank)] : i \in AllIds}

UnitStep(c, stmt, faults) ==
    /\ call[c].op = "Execute"
    /\ steps[c] < MaxSteps
    /\ stmt \in UnitStatements
    /\ Statement(c, stmt, faults)

\* The unit of work returns and db.Transaction commits or rolls back.
\* own is the error a caller's unit of work returns by itself; finish is how
\* the store answers the COMMIT or ROLLBACK.
End(c, own, finish, faults) ==
    /\ pc[c] = "tx"
    /\ finish \in faults
    /\ IF call[c].op = "Execute" THEN own \in {Nil, UnitError}
       ELSE steps[c] = 1 /\ own = Nil
    /\ uerr[c] # Nil => own = Nil
    /\ LET unitErr == IF uerr[c] # Nil THEN uerr[c] ELSE own
           txErr == TransactionError(DriverOk, unitErr,
                                     IF unitErr = Nil THEN finish ELSE DriverOk)
           store == IF unitErr = Nil
                    THEN IF finish = DriverOk THEN "committed" ELSE "commitFailed"
                    ELSE IF finish = DriverOk THEN "rolledBack" ELSE "rollbackFailed"
       IN /\ table' = AfterTransaction(c, unitErr, finish)
          /\ out' = [out EXCEPT ![c] =
               Outcome(call[c].op, ExecuteError(txErr, unitErr),
                       IF call[c].op \in {"Create", "Update"} THEN call[c].user ELSE NoUser,
                       {}, store, ins[c] \cup del[c] # {})]
    /\ pc' = [pc EXCEPT ![c] = "done"]
    /\ ins' = [ins EXCEPT ![c] = {}]
    /\ del' = [del EXCEPT ![c] = {}]
    /\ uerr' = [uerr EXCEPT ![c] = Nil]
    /\ steps' = [steps EXCEPT ![c] = 0]
    /\ UNCHANGED <<calls, call, waited, issued, drv>>

\* What UserServiceImpl.FindById(id) hands back on the committed table, the
\* SELECT ending in `fault` (DriverOk: the store answers).
FindByIdOutcome(id, fault) ==
    LET rows == {r \in table : r.id = id}
        result == IF fault # DriverOk THEN fault
                  ELSE IF rows = {} THEN GormRecordNotFound ELSE DriverOk
    IN Outcome("FindById", RepoFindByIdError(result),
               IF rows = {} THEN NoUser ELSE FromEntity(CHOOSE r \in rows : TRUE),
               {}, "none", FALSE)

\* UserServiceImpl.FindById: one SELECT outside any transaction.
FindById(c, id, fault, budgeted) ==
    /\ pc[c] = "idle"
    /\ Counted(budgeted)
    /\ out' = [out EXCEPT ![c] = FindByIdOutcome(id, fault)]
    /\ call' = [call EXCEPT ![c] =
         [op |-> "FindById", via |-> "http", user |-> User(id, Blank, Blank, Blank)]]
    /\ pc' = [pc EXCEPT ![c] = "done"]
    /\ UNCHANGED <<table, ins, del, uerr, steps, waited, issued, drv>>

\* UserServiceImpl.FindAll: one SELECT outside any transaction.
FindAll(c, fault, budgeted) ==
    /\ pc[c] = "idle"
    /\ Counted(budgeted)
    /\ out' = [out EXCEPT ![c] =
         Outcome("FindAll", RepoFindAllError(fault), NoUser,
                 {FromEntity(r) : r \in table}, "none", FALSE)]
    /\ call' = [call EXCEPT ![c] = [op |-> "FindAll", via |-> "http", user |-> NoUser]]
    /\ pc' = [pc EXCEPT ![c] = "done"]
    /\ UNCHANGED <<table, ins, del, uerr, steps, waited, issued, drv>>

\* One method of PostgresRepository called on its own, its statement ending
\* in driver result `result` having affected `rows` rows.
RepoCall(c, method, result, rows) ==
    /\ pc[c] = "idle"
    /\ method \in {"Create", "FindAll", "FindById", "Update", "Delete"}
    /\ result # DriverOk => rows = 0
    /\ drv' = result
    /\ call' = [call EXCEPT ![c] = [op |-> method, via |-> "repo", user |-> NoUser]]
    /\ out' = [out EXCEPT ![c] =
         Outcome(method,
                 CASE method = "Create" -> RepoCreateError(result)
                   [] method = "FindAll" -> RepoFindAllError(result)
                   [] method = "FindById" -> RepoFindByIdError(result)
                   [] method = "Update" -> RepoUpdateError(result, rows)
                   [] method = "Delete" -> RepoDeleteError(result, rows),
                 NoUser, {}, "none", FALSE)]
    /\ pc' = [pc EXCEPT ![c] = "done"]
    /\ UNCHANGED <<table, calls, ins, del, uerr, steps, waited, issued>>

\* The caller of RepoCall takes the result.
RepoReturn(c) ==
    /\ pc[c] = "done"
    /\ call[c].via = "repo"
    /\ pc' = [pc EXCEPT ![c] = "idle"]
    /\ call' = [call EXCEPT ![c] = NoCall]
    /\ out' = [out EXCEPT ![c] = NoOut]
    /\ drv' = DriverOk
    /\ UNCHANGED <<table, calls, ins, del, uerr, steps, waited, issued>>

\* The caller takes the result; the client is free for its next request.
Return(c) ==
    /\ pc[c] = "done"
    /\ pc' = [pc EXCEPT ![c] = "idle"]
    /\ call' = [call EXCEPT ![c] = NoCall]
    /\ waited' = [waited EXCEPT ![c] = {}]
    /\ out' = [out EXCEPT ![c] = NoOut]
    /\ UNCHANGED <<table, calls, ins, del, uerr, steps, issued, drv>>

\* ---------------------------------------------------------- specifications
\* One caller at a time, any request, any storage fault, and units of work
\* of the caller's own through the transaction port.
Next ==
    \E c \in {"c1"} :
        \/ \E request \in CreateRequests : RejectCreate(c, request, FALSE)
        \/ \E request \in CreateRequests, via \in {"http", "svc"}, begin \in Faults :
               CallCreate(c, request, via, begin, Faults, FALSE)
        \/ \E user \in UpdateRequests, begin \in Faults :
               CallUpdate(c, user, begin, Faults, FALSE)
        \/ \E id \in AllIds, begin \in Faults : CallDelete(c, id, begin, Faults, FALSE)
        \/ \E begin \in Faults : CallExecute(c, begin, Faults)
        \/ Step(c, Faults)
        \/ \E stmt \in UnitStatements : UnitStep(c, stmt, Faults)
        \/ \E own \in {Nil, UnitError}, finish \in Faults : End(c, own, finish, Faults)
        \/ \E id \in AllIds, fault \in Faults : FindById(c, id, fault, FALSE)
        \/ \E fault \in Faults : FindAll(c, fault, FALSE)
        \/ Return(c)

Spec == Init /\ [][Next]_vars

\* Concurrent callers on a healthy store, MaxCalls operations in all.
RaceNext ==
    \E c \in Clients :
        \/ \E request \in {r \in CreateRequests : ValidCreateRequest(r)} :
               CallCreate(c, request, "svc", DriverOk, Healthy, TRUE)
        \/ \E user \in KeyUpdates : CallUpdate(c, user, DriverOk, Healthy, TRUE)
        \/ \E id \in AllIds : CallDelete(c, id, DriverOk, Healthy, TRUE)
        \/ Step(c, Healthy)
        \/ Wait(c)
        \/ End(c, Nil, DriverOk, Healthy)
        \/ \E id \in AllIds : FindById(c, id, DriverOk, TRUE)
        \/ Return(c)

SpecRace == Init /\ [][RaceNext]_vars

\* One caller creating users one after another on a healthy store, MaxCalls
\* creations in all, each noting the clock reading it took.
IdsNext ==
    \E c \in {"c1"} :
        \/ \E request \in CreateRequests : IssueCreate(c, request)
        \/ Step(c, Healthy)
        \/ End(c, Nil, DriverOk, Healthy)
        \/ Return(c)

SpecIds == Init /\ [][IdsNext]_vars

\* The persistence adapter on its own: repository methods under every
\* driver outcome, and Execute running units of work of its caller.
AdapterNext ==
    \E c \in {"c1"} :
        \/ \E method \in {"Create", "FindAll", "FindById", "Update", "Delete"},
              result \in DriverOutcomes, rows \in 0..1 :
               RepoCall(c, method, result, rows)
        \/ RepoReturn(c)
        \/ \E begin \in Faults : CallExecute(c, begin, Faults)
        \/ \E stmt \in UnitStatements : UnitStep(c, stmt, Faults)
        \/ \E own \in {Nil, UnitError}, finish \in Faults : End(c, own, finish, Faults)
        \/ call[c].via # "repo" /\ Return(c)

SpecAdapter == Init /\ [][AdapterNext]_vars

\* ------------------------------------------------------------------ claims
TxOps == {"Create", "Update", "Delete", "Execute"}

\* The operation ended in a storage fault injected on one of its round trips.
InjectedFault(o) ==
    /\ o.exec.type \in {"ErrInternalServer", "ErrTransactionFailed"}
    /\ o.exec.val \in {<<d>> : d \in Details}

\* C1: when the unit of work passed to Execute returns an error, after
\* however many successful writes, Execute returns that very error and the
\* committed table is what it was before Execute: no statement of the
\* transaction and no rollback changes it.
C1_AtomicRollback ==
    [][\A c \in Clients :
         /\ pc[c] = "tx" /\ pc'[c] = "tx" => table' = table
         /\ (pc[c] = "tx" /\ pc'[c] = "done"
             /\ out'[c].store \in {"rolledBack", "rollbackFailed"})
            => /\ table' = table
               /\ out'[c].exec = (IF uerr[c] # Nil THEN uerr[c] ELSE UnitError)]_vars

\* A unit of work wrote, then failed by itself, and was rolled back.
C1_Witness ==
    \E c \in Clients :
        /\ pc[c] = "done" /\ call[c].op = "Execute"
        /\ out[c].wrote /\ out[c].store = "rolledBack"
        /\ out[c].exec = UnitError

\* C2 (as amended): a unit of work that returns nil is committed and Execute
\* returns nil; when Begin or Commit fails Execute returns
\* ErrTransactionFailed and nothing is written; when the unit of work
\* failed, Execute returns the unit's error even if the rollback failed.
C2_ExecuteOutcome ==
    [][\A c \in Clients :
         (pc[c] # "done" /\ pc'[c] = "done" /\ call'[c].op \in TxOps)
         => LET o == out'[c] IN
            /\ o.store = "committed"
               => o.exec = Nil /\ uerr[c] = Nil /\ table' = (table \ del[c]) \cup ins[c]
            /\ o.store \in {"commitFailed", "beginFailed"}
               => o.exec.type = "ErrTransactionFailed" /\ table' = table
            /\ o.store \in {"rolledBack", "rollbackFailed"}
               => o.exec # Nil /\ o.exec.type # "ErrTransactionFailed"
                  /\ o.exec = (IF uerr[c] # Nil THEN uerr[c] ELSE UnitError)]_vars

\* A unit of work wrote and returned nil, and the commit failed.
C2_Witness ==
    \E c \in Clients :
        /\ pc[c] = "done" /\ out[c].wrote /\ out[c].store = "commitFailed"
        /\ out[c].exec.type = "ErrTransactionFailed"

\* C2 as claimed: Execute returns nil after a commit, and ErrTransactionFailed
\* whenever the store failed to commit or to roll back.
C2_AsClaimed ==
    \A c \in Clients :
        (pc[c] = "done" /\ call[c].op \in TxOps)
        => /\ out[c].store = "committed" => out[c].exec = Nil
           /\ out[c].store \in {"commitFailed", "rollbackFailed"}
              => out[c].exec.type = "ErrTransactionFailed"

\* C3: unless the store itself fails, a Create through the orchestrator
\* whose username is that of a stored record (and whose email is new)
\* returns ErrUsernameInUse; one whose email is that of a stored record (and
\* whose username is new) returns ErrEmailInUse; either way the table
\* afterwards is the table before: the stored record is unchanged and nothing
\* of the failed request is stored.
C3_DuplicateRejected ==
    [][\A c \in Clients :
         (pc[c] = "tx" /\ pc'[c] = "done" /\ call[c].op = "Create"
          /\ ~InjectedFault(out'[c]))
         => LET b == call[c].user
                sameUsername == {a \in table : a.username = b.username}
                sameEmail == {a \in table : a.email = b.email}
            IN /\ (sameUsername # {} /\ sameEmail = {})
                  => ErrorsIs(out'[c].err, ErrUsernameInUse) /\ table' = table
               /\ (sameEmail # {} /\ sameUsername = {})
                  => ErrorsIs(out'[c].err, ErrEmailInUse) /\ table' = table]_vars

ConflictKind(k) ==
    CASE k = "pkey" -> ErrIdInUse
      [] k = "idx_username" -> ErrUsernameInUse
      [] k = "idx_email" -> ErrEmailInUse

\* C5: a Create or Update that ran concurrently with another writer and
\* collided with it on a uniqueness constraint, and lost, returns the
\* conflict kind of a constraint it collided on (ErrIdInUse,
\* ErrUsernameInUse or ErrEmailInUse), never another error and never success.
C5_RacingWriters ==
    \A c \in Clients :
        (pc[c] = "done" /\ waited[c] # {} /\ "row" \notin waited[c])
        => out[c].exec \in {ConflictKind(k) : k \in waited[c]}

\* C6: after a Create through the orchestrator succeeded, a FindById on the
\* returned id, with no mutation in between, succeeds and returns a record
\* equal in id, name, username and email to the one Create returned, whose
\* name, username and email are those of the request.
C6_CreateFindRoundTrip ==
    \A c \in Clients :
        (pc[c] = "done" /\ call[c].op = "Create"
         /\ out[c].exec = Nil /\ out[c].err = Nil)
        => LET found == FindByIdOutcome(out[c].user.id, DriverOk) IN
           /\ found.exec = Nil /\ found.err = Nil /\ found.status = StatusOK
           /\ found.user = out[c].user
           /\ found.user.name = call[c].user.name
           /\ found.user.username = call[c].user.username
           /\ found.user.email = call[c].user.email

\* A second record was created beside a stored one and is found again.
C6_Witness ==
    \E c \in Clients :
        /\ pc[c] = "done" /\ call[c].op = "Create"
        /\ out[c].exec = Nil /\ out[c].err = Nil
        /\ Cardinality(table) = 2
        /\ FindByIdOutcome(out[c].user.id, DriverOk).user = out[c].user
        /\ out[c].user.username # out[c].user.email

\* C7: unless the store itself fails, Delete through the orchestrator of an
\* id with no stored record returns ErrUserNotFound and leaves the table
\* unchanged; Delete of an id with a stored record returns nil and removes
\* exactly that record, after which FindById on the id returns
\* ErrUserNotFound; and an id FindById does not find is found again only once
\* a Create of that id (or a caller's own unit of work) has committed.
C7_DeleteSemantics ==
    [][/\ \A c \in Clients :
            (pc[c] = "tx" /\ pc'[c] = "done" /\ call[c].op = "Delete"
             /\ ~InjectedFault(out'[c]))
            => LET live == {r \in table : r.id = call[c].user.id} IN
               IF live = {}
               THEN ErrorsIs(out'[c].err, ErrUserNotFound) /\ table' = table
               ELSE /\ out'[c].err = Nil
                    /\ table' = table \ live
                    /\ ErrorsIs(FindByIdOutcome(call[c].user.id, DriverOk)'.err,
                                ErrUserNotFound)
       /\ \A id \in AllIds :
            (/\ FindByIdOutcome(id, DriverOk).exec = ErrUserNotFound
             /\ FindByIdOutcome(id, DriverOk)'.exec # ErrUserNotFound)
            => \E c \in Clients :
                 /\ pc[c] = "tx" /\ pc'[c] = "done" /\ out'[c].store = "committed"
                 /\ \/ call[c].op = "Create" /\ call[c].user.id = id
                    \/ call[c].op = "Execute"]_vars

\* C8: unless the store itself fails, Update through the orchestrator of an
\* id with no stored record returns ErrUserNotFound (the UPDATE succeeds and
\* affects zero rows) and the table afterwards is the table before.
C8_UpdateAbsent ==
    [][\A c \in Clients :
         (pc[c] = "tx" /\ pc'[c] = "done" /\ call[c].op = "Update"
          /\ ~InjectedFault(out'[c])
          /\ \A r \in table : r.id # call[c].user.id)
         => ErrorsIs(out'[c].err, ErrUserNotFound) /\ table' = table]_vars

DomainSentinels == {ErrUserNotFound, ErrUsernameInUse, ErrEmailInUse, ErrIdInUse}

\* C9: whenever the repository or the transaction port returns
\* ErrUserNotFound, ErrUsernameInUse, ErrEmailInUse or ErrIdInUse to the
\* orchestrator's Create, FindById, Update or Delete, the error the
\* orchestrator returns is recognised by errors.Is as that same sentinel.
C9_KindsPropagate ==
    \A c \in Clients :
        (/\ pc[c] = "done"
         /\ call[c].op \in {"Create", "FindById", "Update", "Delete"}
         /\ out[c].exec \in DomainSentinels)
        => ErrorsIs(out[c].err, out[c].exec)

\* C10: a request handled end to end is answered 404 when the target of a
\* find-by-id, update or delete does not exist, 409 when a create or update
\* violates a uniqueness constraint, and 500 only for other failures.
C10_StatusMapping ==
    \A c \in Clients :
        (pc[c] = "done" /\ call[c].via = "http")
        => /\ (call[c].op \in {"FindById", "Update", "Delete"}
               /\ out[c].exec = ErrUserNotFound)
              => out[c].status = StatusNotFound
           /\ (call[c].op \in {"Create", "Update"}
               /\ out[c].exec \in {ErrUsernameInUse, ErrEmailInUse})
              => out[c].status = StatusConflict
           /\ (call[c].op = "Create" /\ out[c].exec = ErrIdInUse)
              => out[c].status = StatusConflict
           /\ out[c].status = StatusInternalServerError
              => out[c].exec \notin DomainSentinels

\* C11: the ids generated by Create calls made one after another in one
\* process are pairwise distinct and non-decreasing as strings in call order,
\* also when calls take the same clock reading.
C11_IdsDistinctMonotone ==
    \A i \in 1..Len(issued) : \A j \in 1..Len(issued) :
        i < j => /\ issued[i].id # issued[j].id
                 /\ LexLeq(issued[i].id, issued[j].id)

\* C12: when a request fails with ErrInternalServer or ErrTransactionFailed,
\* the response written to the caller does not depend on the storage detail
\* the error carries: the same failure with any other detail gives the same
\* response.
C12_Redaction ==
    \A c \in Clients :
        (/\ pc[c] = "done" /\ call[c].via = "http"
         /\ out[c].exec.type \in {"ErrInternalServer", "ErrTransactionFailed"})
        => \A d \in Details :
             ErrorResponse(ServiceError([out[c].exec EXCEPT !.val = <<d>>]), out[c].status)
             = ErrorResponse(out[c].err, out[c].status)

NonEmptyFields(rows) ==
    \A r \in rows :
        r.id # NoId /\ r.name # Blank /\ r.username # Blank /\ r.email # Blank

\* C13: no Create, Update or Delete through the orchestrator, whatever fields
\* its request leaves blank, ends with a stored record that has an empty id,
\* name, username or email where there was none before; and a Create whose
\* name, username or email is blank stores nothing.
C13_NonEmptyFields ==
    [][\A c \in Clients :
         (/\ pc[c] = "tx" /\ pc'[c] = "done"
          /\ call[c].op \in {"Create", "Update", "Delete"})
         => /\ NonEmptyFields(table) => NonEmptyFields(table')
            /\ (/\ call[c].op = "Create"
                /\ Blank \in {call[c].user.name, call[c].user.username,
                              call[c].user.email})
               => table' = table /\ out'[c].err # Nil]_vars

\* C14: the record a successful Update through the orchestrator returns,
\* whichever of name, username and email the request leaves blank, equals
\* in all four fields the record stored under that id: what a FindById on
\* the id returns right after.
C14_UpdateReturnsStored ==
    \A c \in Clients :
        (pc[c] = "done" /\ call[c].op = "Update" /\ out[c].err = Nil)
        => LET found == FindByIdOutcome(call[c].user.id, DriverOk) IN
           found.err = Nil /\ out[c].user = found.user

\* C15: unless the store itself fails, FindAll returns no error and exactly
\* the stored records: the empty collection when nothing is stored.
C15_FindAll ==
    \A c \in Clients :
        (pc[c] = "done" /\ call[c].op = "FindAll" /\ ~InjectedFault(out[c]))
        => /\ out[c].exec = Nil /\ out[c].err = Nil
           /\ out[c].status = StatusOK
           /\ out[c].users = table
           /\ table = {} => out[c].users = {}

\* FindAll answered with the empty collection on a store that holds nothing.
C15_Witness ==
    \E c \in Clients :
        /\ pc[c] = "done" /\ call[c].op = "FindAll"
        /\ table = {} /\ out[c].users = {}
        /\ out[c].err = Nil /\ out[c].status = StatusOK

\* C16: Create and Update classify a driver error of either shape carrying
\* the unique-violation code by its constraint name: the primary key gives
\* ErrIdInUse, idx_username ErrUsernameInUse, idx_email ErrEmailInUse, and
\* any other or empty constraint name still gives one of these three.
C16_UniqueViolationClassified ==
    \A c \in Clients :
        (/\ pc[c] = "done" /\ call[c].via = "repo"
         /\ call[c].op \in {"Create", "Update"}
         /\ drv.shape \in DriverShapes /\ drv.code = UniqueViolation)
        => /\ out[c].exec \in {ErrIdInUse, ErrUsernameInUse, ErrEmailInUse}
           /\ drv.constraint \in PkeyNames => out[c].exec = ErrIdInUse
           /\ drv.constraint = "idx_username" => out[c].exec = ErrUsernameInUse
           /\ drv.constraint = "idx_email" => out[c].exec = ErrEmailInUse

\* C17: Create and Update classify a driver error of either shape carrying
\* the not-null-violation code as ErrValueNotNullable naming the offending
\* column whenever the driver error names it, and naming the placeholder
\* only when the driver error names no column.
C17_NotNullClassified ==
    \A c \in Clients :
        (/\ pc[c] = "done" /\ call[c].via = "repo"
         /\ call[c].op \in {"Create", "Update"}
         /\ drv.shape \in DriverShapes /\ drv.code = NotNullViolation)
        => out[c].exec = ErrValueNotNullable(IF drv.column # "" THEN drv.column
                                             ELSE "a column")

InVocabulary(err) ==
    \/ err \in DomainSentinels
    \/ err.type \in {"ErrValueNotNullable", "ErrInternalServer"}

\* C18: whatever the driver hands back, a repository method returns nil or
\* one of ErrUserNotFound, ErrIdInUse, ErrUsernameInUse, ErrEmailInUse,
\* ErrValueNotNullable, ErrInternalServer, called on its own or by a unit of
\* work; and Execute returns nil, the very error of its unit of work, or
\* ErrTransactionFailed.
C18_ClosedVocabulary ==
    [][\A c \in Clients :
         /\ (pc[c] = "idle" /\ pc'[c] = "done" /\ call'[c].via = "repo")
            => out'[c].exec = Nil \/ InVocabulary(out'[c].exec)
         /\ (uerr'[c] # uerr[c] /\ uerr'[c] # Nil) => InVocabulary(uerr'[c])
         /\ (pc[c] = "idle" /\ pc'[c] = "done" /\ call'[c].op = "Execute")
            => out'[c].exec.type = "ErrTransactionFailed"
         /\ (pc[c] = "tx" /\ pc'[c] = "done" /\ call[c].op = "Execute")
            => \/ out'[c].exec = Nil
               \/ out'[c].exec.type = "ErrTransactionFailed"
               \/ uerr[c] # Nil /\ out'[c].exec = uerr[c]
               \/ uerr[c] = Nil /\ out'[c].exec = UnitError]_vars

\* A PostgreSQL error the adapter has no class for came back from Update as
\* ErrInternalServer carrying its message.
C18_Witness ==
    \E c \in Clients :
        /\ pc[c] = "done" /\ call[c].via = "repo" /\ call[c].op = "Update"
        /\ drv.shape \in DriverShapes /\ drv.code = "40001"
        /\ out[c].exec = ErrInternalServer(drv.msg)

\* C19: an Update that succeeds replaces the stored record of its id by one
\* with the same id in which every field the request supplies non-empty has
\* the request's value and every field it leaves blank has the value stored
\* before, and changes no other record; an Update that fails, for whatever
\* reason, leaves every record as it was.
C19_PartialUpdateFrame ==
    [][\A c \in Clients :
         (pc[c] # "done" /\ pc'[c] = "done" /\ call'[c].op = "Update")
         => LET request == call'[c].user IN
            IF out'[c].err = Nil
            THEN \E x \in table :
                    /\ x.id = request.id
                    /\ \E y \in table' :
                          /\ table' \ {y} = table \ {x}
                          /\ y.id = x.id
                          /\ y.name = (IF request.name = Blank THEN x.name
                                       ELSE request.name)
                          /\ y.username = (IF request.username = Blank THEN x.username
                                           ELSE request.username)
                          /\ y.email = (IF request.email = Blank THEN x.email
                                        ELSE request.email)
            ELSE table' = table]_vars

\* An Update naming a username and no name succeeded while another record
\* was stored: its record has the new username and still has a name.
C19_Witness ==
    \E c \in Clients :
        /\ pc[c] = "done" /\ call[c].op = "Update" /\ out[c].err = Nil
        /\ out[c].wrote
        /\ call[c].user.name = Blank /\ call[c].user.username # Blank
        /\ Cardinality(table) = 2
        /\ \E x \in table :
              /\ x.id = call[c].user.id
              /\ x.username = call[c].user.username
              /\ x.name # Blank

====
